---------------------------- MODULE Spec2Model ----------------------------
(***************************************************************************)
(* Model of simpleubjson/encoder.py: the UBJSON (draft 8) encoder.         *)
(*                                                                         *)
(* Bytes are numbers 0..255, a chunk is a sequence of bytes, an encoding   *)
(* is a sequence of chunks.  Python integers are arbitrary precision, so   *)
(* an int is a sign and a big-endian base-256 magnitude without leading    *)
(* zero bytes; every comparison, packing and decimal conversion is done    *)
(* on that representation.  Generators are frames on a stack; one pull of  *)
(* the outermost generator runs the frames until the next yield.           *)
(*                                                                         *)
(* float payloads (encode_float) are not modelled: no input value is a     *)
(* float.                                                                  *)
(***************************************************************************)
EXTENDS Integers, Sequences, FiniteSets, TLC

(***************************************************************************)
(* Bounds of the model.                                                    *)
(***************************************************************************)
\* longest magnitude, in bytes, of an integer input (9 bytes exceed int64)
MaxBytes == 9
\* most elements of a small container input
MaxItems == 2
\* sizes from ShortLimit - Margin to ShortLimit + Margin are tried
Margin == 1
\* most entries of a caller's handlers mapping
MaxHandlers == 2
\* most encoders built from one handlers mapping
MaxEncoders == 2

\* the size from which the long form is used: `length < 255`
ShortLimit == 255

(***************************************************************************)
(* Sequence helpers.                                                       *)
(***************************************************************************)
Rep(x, n) == [i \in 1..n |-> x]

\* the concatenation of ss[lo..hi], halving so that the depth stays small
RECURSIVE FlattenRange(_, _, _)
FlattenRange(ss, lo, hi) ==
    IF lo > hi THEN <<>>
    ELSE IF lo = hi THEN ss[lo]
    ELSE FlattenRange(ss, lo, (lo + hi) \div 2) \o
         FlattenRange(ss, ((lo + hi) \div 2) + 1, hi)

Flatten(ss) == FlattenRange(ss, 1, Len(ss))

IsPrefix(p, s) == Len(p) <= Len(s) /\ SubSeq(s, 1, Len(p)) = p

(***************************************************************************)
(* Python int: [neg, mag], mag big-endian base 256, no leading zero byte,  *)
(* zero is the empty magnitude and is not negative.                        *)
(***************************************************************************)
RECURSIVE Strip(_)
Strip(m) == IF m # <<>> /\ Head(m) = 0 THEN Strip(Tail(m)) ELSE m

MkInt(neg, m) == [t |-> "int", neg |-> (neg /\ Strip(m) # <<>>), mag |-> Strip(m)]

\* -1, 0, 1 as a is below, equal to, above b (magnitudes of equal length)
RECURSIVE CmpSame(_, _)
CmpSame(a, b) ==
    IF a = <<>> THEN 0
    ELSE IF Head(a) < Head(b) THEN -1
    ELSE IF Head(a) > Head(b) THEN 1
    ELSE CmpSame(Tail(a), Tail(b))

CmpMag(a, b) ==
    IF Len(a) < Len(b) THEN -1
    ELSE IF Len(a) > Len(b) THEN 1
    ELSE CmpSame(a, b)

\* x <= y on Python ints
IntLeq(x, y) ==
    IF x.neg /\ ~y.neg THEN TRUE
    ELSE IF ~x.neg /\ y.neg THEN FALSE
    ELSE IF x.neg THEN CmpMag(x.mag, y.mag) >= 0
    ELSE CmpMag(x.mag, y.mag) <= 0

\* 2 ** k and 2 ** k - 1 for k = 7 (mod 8), and -(2 ** k)
PowTwo(k) == MkInt(FALSE, <<128>> \o Rep(0, k \div 8))
PowTwoLess1(k) == MkInt(FALSE, <<127>> \o Rep(255, k \div 8))
NegPowTwo(k) == MkInt(TRUE, <<128>> \o Rep(0, k \div 8))

\* lines 20-23
is_byte(value) == IntLeq(NegPowTwo(7), value) /\ IntLeq(value, PowTwoLess1(7))
\* is_int16 with -2 ** 15 < value for its lower bound
is_int16_open(value) ==
    /\ IntLeq(NegPowTwo(15), value)
    /\ value # NegPowTwo(15)
    /\ IntLeq(value, PowTwoLess1(15))

is_int16(value) == IntLeq(NegPowTwo(15), value) /\ IntLeq(value, PowTwoLess1(15))
is_int32(value) == IntLeq(NegPowTwo(31), value) /\ IntLeq(value, PowTwoLess1(31))
is_int64(value) == IntLeq(NegPowTwo(63), value) /\ IntLeq(value, PowTwoLess1(63))

(***************************************************************************)
(* struct.pack                                                             *)
(***************************************************************************)
\* the low w bytes of a magnitude, zero-extended
LowBytes(m, w) ==
    [i \in 1..w |-> IF i + Len(m) - w >= 1 THEN m[i + Len(m) - w] ELSE 0]

\* m + 1 modulo 256 ** Len(m)
RECURSIVE Incr(_)
Incr(m) ==
    IF m = <<>> THEN <<>>
    ELSE LET n == Len(m) IN
         IF m[n] < 255 THEN SubSeq(m, 1, n - 1) \o <<m[n] + 1>>
         ELSE Incr(SubSeq(m, 1, n - 1)) \o <<0>>

\* struct.pack('>b' | '>h' | '>i' | '>q', value): w bytes, big-endian,
\* two's complement
PackInt(w, value) ==
    LET low == LowBytes(value.mag, w) IN
    IF value.neg THEN Incr([i \in 1..w |-> 255 - low[i]]) ELSE low

\* struct.pack('>B', n) and struct.pack('>I', n)
PackB(n) == <<n % 256>>
PackI(n) == <<(n \div 16777216) % 256, (n \div 65536) % 256, (n \div 256) % 256, n % 256>>

\* struct.pack('>%ds' % n, data): exactly n bytes, cut or zero-padded
PackS(n, data) == [i \in 1..n |-> IF i <= Len(data) THEN data[i] ELSE 0]

(***************************************************************************)
(* unicode(value).encode('utf-8') for int and Decimal                      *)
(***************************************************************************)
\* <<quotient, remainder>> of the magnitude m by 10, with the remainder r
\* carried in from the left and the quotient bytes so far in q
RECURSIVE DivTen(_, _, _)
DivTen(m, r, q) ==
    IF m = <<>> THEN <<q, r>>
    ELSE DivTen(Tail(m), ((r * 256) + Head(m)) % 10,
                Append(q, ((r * 256) + Head(m)) \div 10))

\* decimal digits of a magnitude, most significant first, before the digits
\* in low; zero is "0"
RECURSIVE DigitsOnto(_, _)
DigitsNext(qr, low) == DigitsOnto(Strip(qr[1]), <<qr[2]>> \o low)

DigitsOnto(m, low) ==
    IF m = <<>> THEN (IF low = <<>> THEN <<0>> ELSE low)
    ELSE DigitsNext(DivTen(m, 0, <<>>), low)

Digits(m) == DigitsOnto(m, <<>>)

DigitText(ds) == [i \in 1..Len(ds) |-> 48 + ds[i]]

\* the text of an int, or of a Decimal with exponent 0, as UTF-8 bytes
NumberText(value) ==
    (IF value.neg THEN <<45>> ELSE <<>>) \o
    (IF value.t = "Decimal" THEN DigitText(value.digits)
     ELSE DigitText(Digits(value.mag)))

(***************************************************************************)
(* UTF-8                                                                   *)
(***************************************************************************)
Utf8(cp) ==
    IF cp < 128 THEN <<cp>>
    ELSE IF cp < 2048 THEN <<192 + (cp \div 64), 128 + (cp % 64)>>
    ELSE IF cp < 65536 THEN
        <<224 + (cp \div 4096), 128 + ((cp \div 64) % 64), 128 + (cp % 64)>>
    ELSE <<240 + (cp \div 262144), 128 + ((cp \div 4096) % 64),
           128 + ((cp \div 64) % 64), 128 + (cp % 64)>>

\* value.encode('utf-8')
EncodeUtf8(cps) == Flatten([i \in 1..Len(cps) |-> Utf8(cps[i])])

(***************************************************************************)
(* Markers, lines 28-47                                                    *)
(***************************************************************************)
MARKER_Z == <<90>>
MARKER_N == <<78>>
MARKER_F == <<70>>
MARKER_T == <<84>>
MARKER_B == <<66>>
MARKER_i == <<105>>
MARKER_I == <<73>>
MARKER_L == <<76>>
MARKER_s == <<115>>
MARKER_S == <<83>>
MARKER_h == <<104>>
MARKER_H == <<72>>
MARKER_a == <<97>>
MARKER_A == <<65>>
MARKER_o == <<111>>
MARKER_O == <<79>>
MARKER_E == <<69>>
MARKER_FF == <<255>>

(***************************************************************************)
(* Primitive encoders: each returns the list of its chunks.                *)
(***************************************************************************)
encode_noop(value) == <<MARKER_N>>

encode_none(value) == <<MARKER_Z>>

encode_bool(value) == <<IF value.b THEN MARKER_T ELSE MARKER_F>>

\* lines 279-285, on the text of line 278
huge_number_chunks(size, text) ==
    IF size < ShortLimit
    THEN <<MARKER_h, PackB(size), PackS(size, text)>>
    ELSE <<MARKER_H, PackI(size), PackS(size, text)>>

huge_number_sized(text) == huge_number_chunks(Len(text), text)

\* lines 277-285
encode_huge_number(value) == huge_number_sized(NumberText(value))

encode_number(value) ==
    IF is_byte(value) THEN <<MARKER_B, PackInt(1, value)>>
    ELSE IF is_int16(value) THEN <<MARKER_i, PackInt(2, value)>>
    ELSE IF is_int32(value) THEN <<MARKER_I, PackInt(4, value)>>
    ELSE IF is_int64(value) THEN <<MARKER_L, PackInt(8, value)>>
    ELSE encode_huge_number(value)

\* str_chunks with length <= 255 for the short form
str_chunks_inclusive(length, data) ==
    IF length <= ShortLimit
    THEN <<MARKER_s, PackB(length), PackS(length, data)>>
    ELSE <<MARKER_S, PackI(length), PackS(length, data)>>

\* lines 225-231, on the bytes of lines 223-224
str_chunks(length, data) ==
    IF length < ShortLimit
    THEN <<MARKER_s, PackB(length), PackS(length, data)>>
    ELSE <<MARKER_S, PackI(length), PackS(length, data)>>

str_sized(data) == str_chunks(Len(data), data)

\* lines 222-231
encode_str(value) ==
    str_sized(IF value.t = "unicode" THEN EncodeUtf8(value.cps) ELSE value.bytes)

(***************************************************************************)
(* Python values.  Every value is a record with its kind in t:             *)
(*   NOOP, NoneType, bool (b), int (neg, mag), str (bytes),                *)
(*   unicode (cps), Decimal (neg, digits), list | tuple | set (items),     *)
(*   generator | xrange (items: what the producer will yield),             *)
(*   dict (items: <<key, value>> pairs in iteration order),                *)
(*   dict_itemsiterator (items: the pairs it will yield),                  *)
(*   Foo, MyStr (bytes): instances of classes the caller defined.          *)
(***************************************************************************)
NOOP == [t |-> "NOOP"]
None == [t |-> "NoneType"]
Bool(b) == [t |-> "bool", b |-> b]
Str(bytes) == [t |-> "str", bytes |-> bytes]
Unicode(cps) == [t |-> "unicode", cps |-> cps]
Decimal(neg, digits) == [t |-> "Decimal", neg |-> neg, digits |-> digits]
List(items) == [t |-> "list", items |-> items]
Tuple(items) == [t |-> "tuple", items |-> items]
Generator(items) == [t |-> "generator", items |-> items]
Dict(items) == [t |-> "dict", items |-> items]
IterItems(items) == [t |-> "dict_itemsiterator", items |-> items]
Foo == [t |-> "Foo"]
MyStr(bytes) == [t |-> "MyStr", bytes |-> bytes]

\* type(value): an int outside the machine word is a long
TypeOf(value) ==
    IF value.t = "int" THEN (IF is_int64(value) THEN "int" ELSE "long")
    ELSE IF value.t = "NOOP" THEN "NoopType"
    ELSE value.t

\* the classes a type inherits from, itself included
Mro(pytype) ==
    CASE pytype = "bool" -> {"bool", "int", "object"}
      [] pytype = "str" -> {"str", "basestring", "object"}
      [] pytype = "unicode" -> {"unicode", "basestring", "object"}
      [] pytype = "MyStr" -> {"MyStr", "str", "basestring", "object"}
      [] OTHER -> {pytype, "object"}

\* isinstance(value, pytype)
IsInstance(value, pytype) == pytype \in Mro(TypeOf(value))

(***************************************************************************)
(* Callables.  A plain function is [name]; MethodType(func, self) is the   *)
(* bound method [func, self]; None is NoFn.                                *)
(***************************************************************************)
NoFn == [name |-> "None"]
MethodType(func, self) == [func |-> func, self |-> self]
IsPlain(fn) == DOMAIN fn = {"name"} /\ fn # NoFn
IsBound(fn) == DOMAIN fn = {"func", "self"}

(***************************************************************************)
(* A dict is the sequence of its [key, val] entries in iteration order.    *)
(***************************************************************************)
DictHas(d, key) == \E i \in 1..Len(d) : d[i].key = key

\* d.get(key)
DictGet(d, key) ==
    IF DictHas(d, key)
    THEN d[CHOOSE i \in 1..Len(d) : d[i].key = key].val
    ELSE NoFn

\* d[key] = val
DictSet(d, key, val) ==
    IF DictHas(d, key)
    THEN [i \in 1..Len(d) |-> IF d[i].key = key THEN [key |-> key, val |-> val] ELSE d[i]]
    ELSE Append(d, [key |-> key, val |-> val])

\* d.update(other)
RECURSIVE DictUpdate(_, _)
DictUpdate(d, other) ==
    IF other = <<>> THEN d
    ELSE DictUpdate(DictSet(d, Head(other).key, Head(other).val), Tail(other))

(***************************************************************************)
(* UBJSONEncoder.__init__, lines 123-149                                   *)
(***************************************************************************)
\* lines 124-142
BuiltinHandlers(self) ==
    LET M(name) == MethodType([name |-> name], self)
        E(key, name) == [key |-> key, val |-> M(name)]
    IN << E("NoneType", "encode_none"),
          E("bool", "encode_bool"),
          E("int", "encode_number"),
          E("long", "encode_number"),
          E("float", "encode_float"),
          E("basestring", "encode_str"),
          E("tuple", "encode_array"),
          E("list", "encode_array"),
          E("set", "encode_array"),
          E("frozenset", "encode_array"),
          E("dict_keysiterator", "encode_generator"),
          E("dict_valuesiterator", "encode_generator"),
          E("dict_itemsiterator", "encode_iterated_dict"),
          E("xrange", "encode_generator"),
          E("generator", "encode_generator"),
          E("dict", "encode_dict"),
          E("Decimal", "encode_huge_number") >>

\* lines 146-148: the loop stores each bound method back into the mapping
\* it iterates over, which is the caller's
BindHandlers(handlers, self) ==
    [i \in 1..Len(handlers) |->
        IF handlers[i].val # NoFn
        THEN [key |-> handlers[i].key, val |-> MethodType(handlers[i].val, self)]
        ELSE handlers[i]]

\* __init__(self, default, handlers): the new encoder and the handlers
\* mapping as the call leaves it (NoMapping when handlers is None)
NoMapping == <<[key |-> "None", val |-> NoFn]>>

New(self, default, handlers) ==
    LET bound == IF handlers = NoMapping THEN NoMapping ELSE BindHandlers(handlers, self)
    IN [encoder |->
           [self |-> self,
            encode_default |->
                IF default # NoFn THEN MethodType(default, self)
                ELSE MethodType([name |-> "encode_default"], self),
            handlers |->
                IF handlers = NoMapping THEN BuiltinHandlers(self)
                ELSE DictUpdate(BuiltinHandlers(self), bound)],
        handlers |-> bound]

(***************************************************************************)
(* get_handler, lines 173-186                                              *)
(***************************************************************************)
\* lines 181-183: the loop runs over every entry and keeps the last match
RECURSIVE MaybeHandler(_, _, _)
MaybeHandler(items, value, maybe_handler) ==
    IF items = <<>> THEN maybe_handler
    ELSE MaybeHandler(Tail(items), value,
                      IF IsInstance(value, Head(items).key)
                      THEN Head(items).val ELSE maybe_handler)

get_handler(self, value) ==
    IF value = NOOP THEN MethodType([name |-> "encode_noop"], self.self)
    ELSE LET handler == DictGet(self.handlers, TypeOf(value))
             maybe_handler == MaybeHandler(self.handlers, value, NoFn)
         IN IF handler # NoFn THEN handler
            ELSE IF maybe_handler # NoFn THEN maybe_handler
            ELSE self.encode_default

(***************************************************************************)
(* State.                                                                  *)
(***************************************************************************)
VARIABLES
    handlers,   \* the caller's handlers mapping (NoMapping: none was built)
    encoders,   \* the encoders constructed so far
    resolved,   \* the last get_handler call: [self, value, handler]
    mode,       \* "iterencode" | "sink" | "join": how the caller encodes
    value,      \* the value being encoded
    stack,      \* the suspended generator frames, outermost first
    out,        \* the chunks iterencode has handed to its caller
    sink,       \* the chunks written to the output of encode(value, output)
    result,     \* what encode(value) returned
    status,     \* "idle" | "running" | "done" | "abandoned" | an exception
    fault,      \* the value at which the exception was raised
    takes       \* history: every element taken from an unsized producer

vars == <<handlers, encoders, resolved, mode, value, stack, out, sink, result,
          status, fault, takes>>

(***************************************************************************)
(* Generator frames.  A frame is [k, value, pc, i, chunks, base]: k the    *)
(* function, pc where it is suspended, i the elements it has taken, base   *)
(* the number of chunks handed out before it started.  A step of a frame   *)
(* yields a chunk, starts the encoding of a nested value, returns or       *)
(* raises.                                                                 *)
(***************************************************************************)
Frame(k, v, base) == [k |-> k, value |-> v, pc |-> 0, i |-> 0, chunks |-> <<>>, base |-> base]

Yield(chunk, f) == [op |-> "yield", chunk |-> chunk, frame |-> f]
Call(v, f, take) == [op |-> "call", value |-> v, frame |-> f, take |-> take]
Return == [op |-> "return"]
Raise(exc, v) == [op |-> "raise", exc |-> exc, value |-> v]

\* the iteration over a list of chunks a handler returned, lines 170-171
iter_chunks(f) ==
    IF f.i < Len(f.chunks)
    THEN Yield(f.chunks[f.i + 1], [f EXCEPT !.i = f.i + 1])
    ELSE Return

\* array_step with a loop that stops one element early
array_step_short(f, size) ==
    IF f.pc = 0 THEN
        Yield(IF size < ShortLimit THEN MARKER_a ELSE MARKER_A, [f EXCEPT !.pc = 1])
    ELSE IF f.pc = 1 THEN
        Yield(IF size < ShortLimit THEN PackB(size) ELSE PackI(size), [f EXCEPT !.pc = 2])
    ELSE IF f.i < size - 1 THEN
        Call(f.value.items[f.i + 1], [f EXCEPT !.i = f.i + 1], FALSE)
    ELSE Return

\* lines 233-243, with size = len(value) of line 234
array_step(f, size) ==
    IF f.pc = 0 THEN
        Yield(IF size < ShortLimit THEN MARKER_a ELSE MARKER_A, [f EXCEPT !.pc = 1])
    ELSE IF f.pc = 1 THEN
        Yield(IF size < ShortLimit THEN PackB(size) ELSE PackI(size), [f EXCEPT !.pc = 2])
    ELSE IF f.i < size THEN
        Call(f.value.items[f.i + 1], [f EXCEPT !.i = f.i + 1], FALSE)
    ELSE Return

encode_array(f) == array_step(f, Len(f.value.items))

\* encode_generator without the end marker
encode_generator_open(f) ==
    IF f.pc = 0 THEN Yield(MARKER_a, [f EXCEPT !.pc = 1])
    ELSE IF f.pc = 1 THEN Yield(MARKER_FF, [f EXCEPT !.pc = 2])
    ELSE IF f.i < Len(f.value.items)
        THEN Call(f.value.items[f.i + 1], [f EXCEPT !.i = f.i + 1], TRUE)
    ELSE Return

\* encode_generator taking the first element before it yields the placeholder
encode_generator_early(f) ==
    IF f.pc = 0 THEN Yield(MARKER_a, [f EXCEPT !.pc = 1])
    ELSE IF f.pc = 1 THEN
        IF f.i = 0 /\ Len(f.value.items) > 0
        THEN Call(f.value.items[1], [f EXCEPT !.i = 1], TRUE)
        ELSE Yield(MARKER_FF, [f EXCEPT !.pc = 2])
    ELSE IF f.pc = 2 THEN
        IF f.i < Len(f.value.items)
        THEN Call(f.value.items[f.i + 1], [f EXCEPT !.i = f.i + 1], TRUE)
        ELSE Yield(MARKER_E, [f EXCEPT !.pc = 3])
    ELSE Return

\* lines 245-251
encode_generator(f) ==
    IF f.pc = 0 THEN Yield(MARKER_a, [f EXCEPT !.pc = 1])
    ELSE IF f.pc = 1 THEN Yield(MARKER_FF, [f EXCEPT !.pc = 2])
    ELSE IF f.pc = 2 THEN
        IF f.i < Len(f.value.items)
        THEN Call(f.value.items[f.i + 1], [f EXCEPT !.i = f.i + 1], TRUE)
        ELSE Yield(MARKER_E, [f EXCEPT !.pc = 3])
    ELSE Return

\* line 262 with the assertion switched off
key_is_string_unchecked(key) == TRUE

\* line 262
key_is_string(key) == IsInstance(key, "basestring")

\* lines 261-266: the next entry, or the value of the entry whose key is out
dict_entry(f, entry) ==
    IF f.pc = 2 THEN
        IF ~key_is_string(entry[1]) THEN Raise("AssertionError", entry[1])
        ELSE Call(entry[1], [f EXCEPT !.i = f.i + 1, !.pc = 3], FALSE)
    ELSE Call(entry[2], [f EXCEPT !.pc = 2], FALSE)

\* lines 253-266, with size = len(value) of line 254
dict_step(f, size) ==
    IF f.pc = 0 THEN
        Yield(IF size < ShortLimit THEN MARKER_o ELSE MARKER_O, [f EXCEPT !.pc = 1])
    ELSE IF f.pc = 1 THEN
        Yield(IF size < ShortLimit THEN PackB(size) ELSE PackI(size), [f EXCEPT !.pc = 2])
    ELSE IF f.pc = 2 /\ f.i >= size THEN Return
    ELSE dict_entry(f, f.value.items[IF f.pc = 2 THEN f.i + 1 ELSE f.i])

encode_dict(f) == dict_step(f, Len(f.value.items))

\* lines 271-274
iterated_entry(f, entry) ==
    IF ~key_is_string(entry[1]) THEN Raise("AssertionError", entry[1])
    ELSE Call(Tuple(<<entry[1], entry[2]>>), [f EXCEPT !.i = f.i + 1], TRUE)

\* lines 268-275
encode_iterated_dict(f) ==
    IF f.pc = 0 THEN Yield(MARKER_o, [f EXCEPT !.pc = 1])
    ELSE IF f.pc = 1 THEN Yield(MARKER_FF, [f EXCEPT !.pc = 2])
    ELSE IF f.pc = 2 THEN
        IF f.i < Len(f.value.items)
        THEN iterated_entry(f, f.value.items[f.i + 1])
        ELSE Yield(MARKER_E, [f EXCEPT !.pc = 3])
    ELSE Return

Become(f) == [op |-> "become", frame |-> f]

\* the iteration over the list of chunks cs that a handler returned
ChunkList(v, cs) == Become([Frame("iter_chunks", v, 0) EXCEPT !.chunks = cs])

\* a default the caller supplied: lambda self, value: [b'Z'], or [b'N']
UserDefault(fn) == IF fn.name = "null_default" THEN <<MARKER_Z>> ELSE <<MARKER_N>>

\* encode_default returning no chunk instead of raising
encode_default_silent(fn, v) ==
    IF fn = [name |-> "encode_default"] THEN ChunkList(v, <<>>)
    ELSE ChunkList(v, UserDefault(fn))

\* lines 188-189, or the default the caller supplied (line 144)
encode_default(fn, v) ==
    IF fn = [name |-> "encode_default"] THEN Raise("TypeError", v)
    ELSE ChunkList(v, UserDefault(fn))

\* handler(value), line 170: a generator function gives a frame that has not
\* run yet, any other handler runs at once and gives its list of chunks
CallNamed(name, fn, v) ==
    CASE name = "encode_noop" -> ChunkList(v, encode_noop(v))
      [] name = "encode_none" -> ChunkList(v, encode_none(v))
      [] name = "encode_bool" -> ChunkList(v, encode_bool(v))
      [] name = "encode_number" -> ChunkList(v, encode_number(v))
      [] name = "encode_str" -> ChunkList(v, encode_str(v))
      [] name = "encode_huge_number" -> ChunkList(v, encode_huge_number(v))
      [] name \in {"encode_array", "encode_generator", "encode_dict",
                   "encode_iterated_dict"} -> Become(Frame(name, v, 0))
      [] name \in {"encode_default", "null_default", "noop_default"} ->
             encode_default(fn, v)

CallHandler(handler, v) == CallNamed(handler.func.name, handler.func, v)

\* lines 168-171: the first step of iterencode(value) resolves the handler
\* and calls it; from then on it passes the handler's chunks through
Started(f, started) ==
    IF started.op = "raise" THEN started
    ELSE Become([started.frame EXCEPT !.base = f.base])

iterencode(self, f) == Started(f, CallHandler(get_handler(self, f.value), f.value))

\* one step of the frame f
StepFrame(self, f) ==
    CASE f.k = "iterencode" -> iterencode(self, f)
      [] f.k = "iter_chunks" -> iter_chunks(f)
      [] f.k = "encode_array" -> encode_array(f)
      [] f.k = "encode_generator" -> encode_generator(f)
      [] f.k = "encode_dict" -> encode_dict(f)
      [] f.k = "encode_iterated_dict" -> encode_iterated_dict(f)

(***************************************************************************)
(* next() on the outermost generator: the machine m = [stack, n, takes]    *)
(* (n: chunks handed out so far) runs until a chunk is yielded, the        *)
(* outermost generator returns, or an exception leaves it.                 *)
(***************************************************************************)
RECURSIVE Resume(_, _)
\* the machine after the step e of its innermost frame f
Effect(self, m, below, f, e) ==
    CASE e.op = "yield" ->
            [m EXCEPT !.stack = Append(below, e.frame), !.status = "yield",
                      !.chunk = e.chunk, !.n = m.n + 1]
      [] e.op = "become" ->
            Resume(self, [m EXCEPT !.stack = Append(below, e.frame)])
      [] e.op = "call" ->
            Resume(self,
                [m EXCEPT
                    !.stack = below \o <<e.frame, Frame("iterencode", e.value, m.n)>>,
                    !.takes = IF e.take
                              THEN Append(m.takes,
                                       [src |-> f.value, base |-> f.base,
                                        i |-> e.frame.i, at |-> m.n])
                              ELSE m.takes])
      [] e.op = "return" -> Resume(self, [m EXCEPT !.stack = below])
      [] e.op = "raise" ->
            [m EXCEPT !.stack = <<>>, !.status = e.exc, !.fault = e.value]

Innermost(self, m, f) ==
    Effect(self, m, SubSeq(m.stack, 1, Len(m.stack) - 1), f, StepFrame(self, f))

Resume(self, m) ==
    IF m.stack = <<>> THEN [m EXCEPT !.status = "done"]
    ELSE Innermost(self, m, m.stack[Len(m.stack)])

\* iterencode(value), lines 168-171: the generator, not yet run
Machine(v) ==
    [stack |-> <<Frame("iterencode", v, 0)>>, n |-> 0, takes |-> <<>>,
     status |-> "running", chunk |-> <<>>, fault |-> None]

\* every chunk the machine yields from m on, and how it ends
RECURSIVE Drain(_, _, _)
Drained(self, r, acc) ==
    IF r.status = "yield" THEN Drain(self, r, Append(acc, r.chunk))
    ELSE [chunks |-> acc, status |-> r.status, fault |-> r.fault, takes |-> r.takes]

Drain(self, m, acc) == Drained(self, Resume(self, m), acc)

\* list(self.iterencode(v))
Chunks(self, v) == Drain(self, Machine(v), <<>>)

(***************************************************************************)
(* Inputs.                                                                 *)
(***************************************************************************)
SeqsUpTo(S, n) == UNION {[1..k -> S] : k \in 0..n}

\* magnitudes around every power of 256: top byte, equal middle bytes, last
IntMags ==
    {<<t>> : t \in {1, 127, 128, 255}} \cup
    {<<t>> \o Rep(f, n - 2) \o <<l>> :
        t \in {1, 127, 128, 255}, f \in {0, 255}, l \in {0, 1, 255}, n \in 2..MaxBytes}

IntInputs ==
    {MkInt(neg, m) : neg \in BOOLEAN, m \in IntMags} \cup {MkInt(FALSE, <<>>)}

Sizes == (ShortLimit - Margin)..(ShortLimit + Margin)

\* "hi", "a", "b"
Hi == <<104, 105>>
KeyA == Unicode(<<97>>)
KeyB == Str(<<98>>)

\* text of A's ending in nothing, e-acute, the euro sign or an emoji
StrInputs ==
    {Unicode(Rep(65, n) \o tail) :
        n \in (ShortLimit - Margin - 4)..(ShortLimit + Margin),
        tail \in {<<>>, <<233>>, <<8364>>, <<128512>>}} \cup
    {Str(Rep(65, n)) : n \in Sizes} \cup
    {Unicode(Hi), Str(Hi), Unicode(<<>>), Unicode(<<233, 8364>>), MyStr(Hi)}

DecimalInputs ==
    {Decimal(neg, Rep(7, n)) : neg \in BOOLEAN, n \in (ShortLimit - Margin - 1)..(ShortLimit + Margin)}
    \cup {Decimal(FALSE, <<1, 2>>), Decimal(TRUE, <<0>>)}

Five == MkInt(FALSE, <<5>>)
SmallElems == {None, Bool(TRUE), Five, Unicode(Hi), Foo, NOOP}

SmallArrays ==
    {List(s) : s \in SeqsUpTo(SmallElems, MaxItems)} \cup
    {Generator(s) : s \in SeqsUpTo(SmallElems, MaxItems)}

\* entries with distinct keys; the key 1 is not a string
Entries == {KeyA, KeyB, MkInt(FALSE, <<1>>)} \X {None, Five, Foo}
EntrySeqs ==
    {s \in SeqsUpTo(Entries, MaxItems) :
        \A i, j \in 1..Len(s) : s[i][1] = s[j][1] => i = j}

SmallObjects == {Dict(s) : s \in EntrySeqs} \cup {IterItems(s) : s \in EntrySeqs}

NestedElems ==
    {None, Foo, List(<<Five>>), Generator(<<None>>),
     IterItems(<<<<KeyA, Five>>>>), IterItems(<<<<Five, None>>>>)}

NestedInputs ==
    {List(s) : s \in SeqsUpTo(NestedElems, MaxItems)} \cup
    {Generator(s) : s \in SeqsUpTo(NestedElems, MaxItems)} \cup
    {Dict(<<<<KeyA, x>>>>) : x \in NestedElems} \cup
    {IterItems(<<<<KeyB, x>>>>) : x \in NestedElems} \cup
    {Generator(<<Generator(<<Generator(<<x>>)>>)>>) : x \in {None, Foo}}

\* the i-th of many distinct keys
KeyNo(i) == Unicode(<<65 + (i % 26), 97 + (i \div 26)>>)

LargeInputs ==
    {List(Rep(None, n)) : n \in Sizes} \cup
    {Dict([i \in 1..n |-> <<KeyNo(i), None>>]) : n \in Sizes}

Inputs ==
    {NOOP, None, Bool(TRUE), Bool(FALSE), Foo} \cup IntInputs \cup StrInputs \cup
    DecimalInputs \cup SmallArrays \cup SmallObjects \cup NestedInputs \cup LargeInputs

Defaults == {NoFn, [name |-> "null_default"]}

(***************************************************************************)
(* Encoding: one encoder, built without a handlers mapping, encodes one    *)
(* value through iterencode, encode(value, output) or encode(value).       *)
(***************************************************************************)
NoResult == [returned |-> FALSE]
NoResolved == [self |-> 0]

Init ==
    /\ handlers = NoMapping
    /\ \E default \in Defaults : encoders = <<New(1, default, NoMapping).encoder>>
    /\ resolved = NoResolved
    /\ mode \in {"iterencode", "sink", "join"}
    /\ value \in Inputs
    /\ stack = Machine(value).stack
    /\ out = <<>>
    /\ sink = <<>>
    /\ result = NoResult
    /\ status = "running"
    /\ fault = None
    /\ takes = <<>>

Current ==
    [stack |-> stack, n |-> Len(out), takes |-> takes, status |-> "running",
     chunk |-> <<>>, fault |-> None]

\* the caller of next(it), it = self.iterencode(value), gets the chunk, the
\* end of the iteration or the exception r
Deliver(r) ==
    /\ stack' = r.stack
    /\ takes' = r.takes
    /\ fault' = r.fault
    /\ out' = IF r.status = "yield" THEN Append(out, r.chunk) ELSE out
    /\ status' = IF r.status = "yield" THEN "running" ELSE r.status

\* next(it) by the caller of iterencode(value)
Pull ==
    /\ mode = "iterencode"
    /\ status = "running"
    /\ Deliver(Resume(encoders[1], Current))
    /\ UNCHANGED <<handlers, encoders, resolved, mode, value, sink, result>>

\* the caller stops pulling and drops the generator
Abandon ==
    /\ mode = "iterencode"
    /\ status = "running"
    /\ status' = "abandoned"
    /\ UNCHANGED <<handlers, encoders, resolved, mode, value, stack, out, sink,
                   result, fault, takes>>

\* one round of the loop of encode(value, output), lines 165-166
EncodeToSink ==
    /\ mode = "sink"
    /\ status = "running"
    /\ Deliver(Resume(encoders[1], Current))
    /\ sink' = IF status' = "running" THEN Append(sink, out'[Len(out')]) ELSE sink
    /\ UNCHANGED <<handlers, encoders, resolved, mode, value, result>>

\* encode(value), lines 163-164: join pulls one chunk after the other and
\* returns their concatenation when the generator is exhausted
Encode ==
    /\ mode = "join"
    /\ status = "running"
    /\ Deliver(Resume(encoders[1], Current))
    /\ result' = IF status' = "done"
                 THEN [returned |-> TRUE, bytes |-> Flatten(out)]
                 ELSE result
    /\ UNCHANGED <<handlers, encoders, resolved, mode, value, sink>>

Next == Pull \/ Abandon \/ EncodeToSink \/ Encode

Spec == Init /\ [][Next]_vars

(***************************************************************************)
(* Construction and handler resolution: a caller builds encoders from one  *)
(* handlers mapping and asks them for the handler of a value.  The caller  *)
(* passes plain functions (f, g) or None as handlers.                      *)
(***************************************************************************)
UserKeys == {"object", "basestring", "str", "Foo"}
UserFns == {[name |-> "f"], [name |-> "g"], NoFn}

CallerMappings ==
    {NoMapping} \cup
    {h \in SeqsUpTo([key : UserKeys, val : UserFns], MaxHandlers) :
        \A i, j \in 1..Len(h) : h[i].key = h[j].key => i = j}

ProbeValues ==
    {NOOP, None, Bool(TRUE), Five, Str(Hi), Unicode(Hi), MyStr(Hi), Foo, List(<<>>)}

RegInit ==
    /\ handlers \in CallerMappings
    /\ encoders = <<>>
    /\ resolved = NoResolved
    /\ mode = "idle"
    /\ value = None
    /\ stack = <<>>
    /\ out = <<>>
    /\ sink = <<>>
    /\ result = NoResult
    /\ status = "idle"
    /\ fault = None
    /\ takes = <<>>

Built(made) ==
    /\ encoders' = Append(encoders, made.encoder)
    /\ handlers' = made.handlers

\* UBJSONEncoder(default, handlers)
Construct ==
    /\ Len(encoders) < MaxEncoders
    /\ \E default \in Defaults : Built(New(Len(encoders) + 1, default, handlers))
    /\ UNCHANGED <<resolved, mode, value, stack, out, sink, result, status, fault, takes>>

\* encoder.get_handler(v)
GetHandler ==
    /\ \E e \in 1..Len(encoders), v \in ProbeValues :
        resolved' = [self |-> e, value |-> v, handler |-> get_handler(encoders[e], v)]
    /\ UNCHANGED <<handlers, encoders, mode, value, stack, out, sink, result, status,
                   fault, takes>>

RegNext == Construct \/ GetHandler

SpecReg == RegInit /\ [][RegNext]_vars

(***************************************************************************)
(* Claims about construction and resolution, checked under SpecReg.        *)
(***************************************************************************)
\* the handler of the first entry, in iteration order, that has a handler
\* and whose key the value is an instance of; NoFn when there is none
RECURSIVE FirstMatch(_, _)
FirstMatch(items, v) ==
    IF items = <<>> THEN NoFn
    ELSE IF Head(items).val # NoFn /\ IsInstance(v, Head(items).key) THEN Head(items).val
    ELSE FirstMatch(Tail(items), v)

FirstMatchOr(first, fallback) == IF first # NoFn THEN first ELSE fallback

ClaimedHandler(self, v) ==
    IF v = NOOP THEN MethodType([name |-> "encode_noop"], self.self)
    ELSE IF DictGet(self.handlers, TypeOf(v)) # NoFn THEN DictGet(self.handlers, TypeOf(v))
    ELSE FirstMatchOr(FirstMatch(self.handlers, v), self.encode_default)

\* C6: get_handler returns the noop encoder for NOOP, else the exact-type
\* entry, else the handler of the first registered category, in iteration
\* order, that the value is an instance of, else the default handler.
\* (Stated for registries in which every entry has a handler.)
C6_FirstMatchResolution ==
    (/\ resolved # NoResolved
     /\ \A i \in 1..Len(encoders[resolved.self].handlers) :
            encoders[resolved.self].handlers[i].val # NoFn) =>
        resolved.handler = ClaimedHandler(encoders[resolved.self], resolved.value)

\* C10: constructing an encoder leaves the caller's mapping as the caller
\* wrote it (plain functions and None), and every handler of every encoder
\* is a plain function bound to that encoder alone.
C10_MappingUnchanged ==
    /\ handlers # NoMapping =>
         \A i \in 1..Len(handlers) :
            handlers[i].val = NoFn \/ IsPlain(handlers[i].val)
    /\ \A e \in 1..Len(encoders) :
         \A i \in 1..Len(encoders[e].handlers) :
            \/ encoders[e].handlers[i].val = NoFn
            \/ /\ IsBound(encoders[e].handlers[i].val)
               /\ encoders[e].handlers[i].val.self = e
               /\ IsPlain(encoders[e].handlers[i].val.func)

(***************************************************************************)
(* Claims about encoding, checked under Spec.                              *)
(***************************************************************************)
Finished == status \notin {"running", "abandoned", "idle"}

\* the number a big-endian length field holds
RECURSIVE BigEndian(_, _)
BigEndian(field, acc) ==
    IF field = <<>> THEN acc ELSE BigEndian(Tail(field), (acc * 256) + Head(field))

\* v lies in the inclusive range of the signed integers of w bytes: its
\* magnitude is shorter than w bytes, or has w bytes with the top bit clear,
\* or v is the least such integer
FitsSigned(v, w) ==
    \/ Len(v.mag) < w
    \/ Len(v.mag) = w /\ v.mag[1] < 128
    \/ Len(v.mag) = w /\ v.neg /\ v.mag = <<128>> \o Rep(0, w - 1)

Widths == {1, 2, 4, 8}

IsNarrowest(v, w) ==
    /\ w \in Widths
    /\ FitsSigned(v, w)
    /\ \A u \in Widths : FitsSigned(v, u) => w <= u

MarkerOfWidth(w) ==
    CASE w = 1 -> MARKER_B [] w = 2 -> MARKER_i [] w = 4 -> MARKER_I [] w = 8 -> MARKER_L

\* a + b on byte strings of equal length, as a byte string one byte longer
RECURSIVE AddBytes(_, _, _, _)
AddBytes(a, b, carry, acc) ==
    IF a = <<>> THEN <<carry>> \o acc
    ELSE AddBytes(SubSeq(a, 1, Len(a) - 1), SubSeq(b, 1, Len(b) - 1),
                  (a[Len(a)] + b[Len(b)] + carry) \div 256,
                  <<(a[Len(a)] + b[Len(b)] + carry) % 256>> \o acc)

\* payload is the two's complement of v on Len(payload) bytes: v itself when
\* v >= 0, and 256 ** Len(payload) - |v| when v < 0
IsTwosComplement(payload, v) ==
    IF v.neg
    THEN /\ payload[1] >= 128
         /\ AddBytes(payload, LowBytes(v.mag, Len(payload)), 0, <<>>)
                = <<1>> \o Rep(0, Len(payload))
    ELSE /\ Strip(payload) = v.mag
         /\ (payload = <<>> \/ payload[1] < 128)

\* the magnitude m * 10 + d
RECURSIVE TimesTenPlus(_, _, _)
TimesTenPlus(m, carry, acc) ==
    IF m = <<>> THEN Strip(<<carry>> \o acc)
    ELSE TimesTenPlus(SubSeq(m, 1, Len(m) - 1),
                      ((m[Len(m)] * 10) + carry) \div 256,
                      <<((m[Len(m)] * 10) + carry) % 256>> \o acc)

\* the magnitude that the decimal digits (as bytes '0'..'9') spell
RECURSIVE ParseDigits(_, _)
ParseDigits(text, m) ==
    IF text = <<>> THEN m
    ELSE ParseDigits(Tail(text), TimesTenPlus(m, Head(text) - 48, <<>>))

\* text is the decimal text of the int v
IsDecimalText(text, v) ==
    /\ text # <<>>
    /\ v.neg <=> Head(text) = 45
    /\ \A i \in 1..Len(text) : text[i] \in 48..57 \/ (i = 1 /\ text[i] = 45)
    /\ ParseDigits(IF v.neg THEN Tail(text) ELSE text, <<>>) = v.mag

\* C1: an int within the signed 64-bit range is encoded as the marker of the
\* narrowest of B, i, I, L whose range holds it, followed by its big-endian
\* two's complement payload of that width; an int outside that range is
\* encoded as a huge number (marker h or H) carrying its decimal text.
C1_NarrowestInteger ==
    (value.t = "int" /\ status = "done") =>
        IF FitsSigned(value, 8)
        THEN /\ Len(out) = 2
             /\ IsNarrowest(value, Len(out[2]))
             /\ out[1] = MarkerOfWidth(Len(out[2]))
             /\ IsTwosComplement(out[2], value)
        ELSE /\ Len(out) = 3
             /\ out[1] \in {MARKER_h, MARKER_H}
             /\ BigEndian(out[2], 0) = Len(out[3])
             /\ IsDecimalText(out[3], value)

\* the int -2 ** 63 was encoded with marker L
C1_Witness ==
    /\ status = "done"
    /\ value = MkInt(TRUE, <<128>> \o Rep(0, 7))
    /\ out[1] = MARKER_L

\* an int above 2 ** 63 - 1 was encoded as a huge number
C1_WitnessHuge ==
    /\ status = "done"
    /\ value.t = "int"
    /\ ~value.neg
    /\ Len(value.mag) = 8
    /\ value.mag[1] = 128
    /\ out[1] = MARKER_h

\* the bytes UTF-8 spends on a code point
Utf8Length(cp) ==
    IF cp <= 127 THEN 1 ELSE IF cp <= 2047 THEN 2 ELSE IF cp <= 65535 THEN 3 ELSE 4

RECURSIVE Utf8LengthOf(_, _, _)
Utf8LengthOf(cps, lo, hi) ==
    IF lo > hi THEN 0
    ELSE IF lo = hi THEN Utf8Length(cps[lo])
    ELSE Utf8LengthOf(cps, lo, (lo + hi) \div 2) +
         Utf8LengthOf(cps, ((lo + hi) \div 2) + 1, hi)

\* the values encoded with a length field, their measured size and markers
HasLengthField(v) ==
    \/ v.t \in {"str", "MyStr", "unicode", "Decimal", "list", "tuple", "dict"}
    \/ v.t = "int" /\ ~FitsSigned(v, 8)

MeasuredSize(v) ==
    CASE v.t \in {"str", "MyStr"} -> Len(v.bytes)
      [] v.t = "unicode" -> Utf8LengthOf(v.cps, 1, Len(v.cps))
      [] v.t = "Decimal" -> Len(v.digits) + (IF v.neg THEN 1 ELSE 0)
      [] v.t = "int" -> Len(NumberText(v))
      [] v.t \in {"list", "tuple", "dict"} -> Len(v.items)

ShortMarker(v) ==
    CASE v.t \in {"str", "MyStr", "unicode"} -> MARKER_s
      [] v.t \in {"Decimal", "int"} -> MARKER_h
      [] v.t \in {"list", "tuple"} -> MARKER_a
      [] v.t = "dict" -> MARKER_o

LongMarker(v) ==
    CASE v.t \in {"str", "MyStr", "unicode"} -> MARKER_S
      [] v.t \in {"Decimal", "int"} -> MARKER_H
      [] v.t \in {"list", "tuple"} -> MARKER_A
      [] v.t = "dict" -> MARKER_O

\* C2: a string, sized array, sized object or huge number gets the short
\* marker (s, a, o, h) and a 1-byte length exactly when its measured size
\* (UTF-8 bytes, elements, entries, text bytes) is below 255, and the long
\* marker (S, A, O, H) and a 4-byte big-endian length exactly when it is 255
\* or more; the length field holds the measured size.
C2_ShortOrLongForm ==
    (Len(out) >= 2 /\ HasLengthField(value)) =>
        /\ MeasuredSize(value) < 255 <=>
              (out[1] = ShortMarker(value) /\ Len(out[2]) = 1)
        /\ MeasuredSize(value) >= 255 <=>
              (out[1] = LongMarker(value) /\ Len(out[2]) = 4)
        /\ BigEndian(out[2], 0) = MeasuredSize(value)

\* text of fewer than 255 characters and at least 255 UTF-8 bytes got the
\* long marker
C2_Witness ==
    /\ Len(out) >= 2
    /\ value.t = "unicode"
    /\ Len(value.cps) < 255
    /\ out[1] = MARKER_S

\* what follows the two header chunks
Body == SubSeq(out, 3, Len(out))

\* the encodings of the elements, one after the other
ElementChunks(self, items) ==
    Flatten([i \in 1..Len(items) |-> Chunks(self, items[i]).chunks])

\* the encodings of the entries: each key, then its value
EntryChunks(self, items) ==
    Flatten([i \in 1..Len(items) |->
                Chunks(self, items[i][1]).chunks \o Chunks(self, items[i][2]).chunks])

SizedBody(self, v) ==
    IF v.t = "dict" THEN EntryChunks(self, v.items) ELSE ElementChunks(self, v.items)

\* C3: however the chunks are pulled, a sized array or object emits its
\* marker, a length field equal to its count, and then the encodings of
\* exactly its elements (entries: key, then value) in their order: all of
\* them once the encoding has finished, and never anything else on the way
\* (the way is followed for the containers that are not in LargeInputs).
C3_SizedContainer ==
    value.t \in {"list", "tuple", "dict"} =>
        /\ Len(out) >= 2 =>
              /\ out[1] \in {ShortMarker(value), LongMarker(value)}
              /\ BigEndian(out[2], 0) = Len(value.items)
        /\ status = "done" => Body = SizedBody(encoders[1], value)
        /\ value \notin LargeInputs => IsPrefix(Body, SizedBody(encoders[1], value))

\* a sized object of two entries was encoded to the end through iterencode
C3_Witness ==
    /\ status = "done"
    /\ mode = "iterencode"
    /\ value.t = "dict"
    /\ Len(value.items) = 2
    /\ Len(out) > 4

\* C5: in the byte stream of every object, sized or unsized, each entry is
\* the encoding of its key immediately followed by the encoding of its
\* value, and nothing else.
C5_KeyThenValue ==
    (value.t \in {"dict", "dict_itemsiterator"} /\ status = "done") =>
        Body = EntryChunks(encoders[1], value.items) \o
               (IF value.t = "dict" THEN <<>> ELSE <<MARKER_E>>)

UnsizedKinds == {"encode_generator", "encode_iterated_dict"}

UnsizedMarker(k) == IF k = "encode_generator" THEN MARKER_a ELSE MARKER_o

\* the frame f of an unsized container has put its marker and the
\* placeholder 0xFF where it started, and the end marker last
UnsizedFrameForm(f) ==
    /\ f.pc >= 1 => out[f.base + 1] = UnsizedMarker(f.k)
    /\ f.pc >= 2 => out[f.base + 2] = MARKER_FF
    /\ f.pc = 3 => f.i = Len(f.value.items) /\ out[Len(out)] = MARKER_E

\* C4: an unsized producer, array or object, at any depth, emits its marker
\* followed by the placeholder 0xFF, never a length field, and once it is
\* exhausted its stream ends with the end marker E.
C4_UnsizedForm ==
    /\ \A d \in 1..Len(stack) :
          stack[d].k \in UnsizedKinds => UnsizedFrameForm(stack[d])
    /\ (value.t \in {"generator", "dict_itemsiterator"} /\ status = "done") =>
          /\ out[1] = (IF value.t = "generator" THEN MARKER_a ELSE MARKER_o)
          /\ out[2] = MARKER_FF
          /\ out[Len(out)] = MARKER_E

\* a producer nested in a container has just emitted its end marker
C4_Witness ==
    \E d \in 2..Len(stack) :
        /\ stack[d].k \in UnsizedKinds
        /\ stack[d].pc = 3
        /\ stack[d].base > 0

\* the encoder that differs from the one at work in its default handler
Twin(name) == New(1, [name |-> name], NoMapping).encoder

\* the chunks before the first one in which a and b differ
RECURSIVE CommonPrefix(_, _, _)
CommonPrefix(a, b, acc) ==
    IF a = <<>> \/ b = <<>> \/ Head(a) # Head(b) THEN acc
    ELSE CommonPrefix(Tail(a), Tail(b), Append(acc, Head(a)))

NoDefault == encoders[1].encode_default.func = [name |-> "encode_default"]

\* a, b: the encodings of the value by two encoders whose default handlers
\* yield different chunks; they differ first at the first value for which
\* no handler resolves
FailsAtFirstUnhandled(a, b) ==
    /\ status = "done" => a = b
    /\ a # b => IsPrefix(out, CommonPrefix(a, b, <<>>))
    /\ (a # b /\ Finished) => status = "TypeError"
    /\ status = "TypeError" =>
          /\ a # b
          /\ out = CommonPrefix(a, b, <<>>)
          /\ result = NoResult
          /\ get_handler(encoders[1], fault).func = [name |-> "encode_default"]

\* C7: without a default handler, an encode fails with an error at the
\* first value for which no handler resolves; the chunks produced, which
\* encode(value, sink) has written to the sink one by one, are then exactly
\* those of everything before that value, and at no time anything beyond.
C7_FailsAtUnhandled ==
    /\ mode = "sink" => sink = out
    /\ (NoDefault /\ value \notin LargeInputs) =>
          FailsAtFirstUnhandled(Chunks(Twin("null_default"), value).chunks,
                                Chunks(Twin("noop_default"), value).chunks)

\* encode(value, sink) failed at an element of a list after writing chunks
C7_Witness ==
    /\ mode = "sink"
    /\ status = "TypeError"
    /\ value.t = "list"
    /\ Len(sink) > 2

StringTypes == {"str", "unicode", "MyStr"}

IsObject(v) == v.t \in {"dict", "dict_itemsiterator"}

HasBadKey(v) == IsObject(v) /\ \E i \in 1..Len(v.items) : v.items[i][1].t \notin StringTypes

FirstBadKey(v) ==
    CHOOSE i \in 1..Len(v.items) :
        /\ v.items[i][1].t \notin StringTypes
        /\ \A j \in 1..(i - 1) : v.items[j][1].t \in StringTypes

\* the object with the entries before its first bad key only
BeforeBadKey(v) == [v EXCEPT !.items = SubSeq(v.items, 1, FirstBadKey(v) - 1)]

\* the chunks of a run c without the end marker of a finished unsized object
Unclosed(v, c) ==
    IF c.status = "done" /\ v.t = "dict_itemsiterator"
    THEN SubSeq(c.chunks, 3, Len(c.chunks) - 1)
    ELSE SubSeq(c.chunks, 3, Len(c.chunks))

\* c: the encoding of the entries before the first bad key
StopsAtBadKey(c) ==
    /\ IsPrefix(Body, Unclosed(value, c))
    /\ status # "done"
    /\ (Finished /\ c.status = "done") =>
          /\ status = "AssertionError"
          /\ Body = Unclosed(value, c)
          /\ fault = value.items[FirstBadKey(value)][1]

\* C8: a sized or unsized object with an entry whose key is not a string
\* fails with an assertion error when that entry is reached; the key is not
\* coerced and no chunk of that key or of its value is ever produced.
C8_NonStringKeyFails ==
    /\ status = "AssertionError" => fault.t \notin StringTypes
    /\ HasBadKey(value) => StopsAtBadKey(Chunks(encoders[1], BeforeBadKey(value)))

\* an unsized object failed at its second entry, the first being encoded
C8_Witness ==
    /\ status = "AssertionError"
    /\ value.t = "dict_itemsiterator"
    /\ Len(value.items) = 2
    /\ Len(out) > 2

\* the producer with its first n elements only
FirstElements(v, n) == [v EXCEPT !.items = SubSeq(v.items, 1, n)]

\* the take t happened when exactly the chunks of the elements before it,
\* after the two header chunks, had been handed to the caller
TakenInTurn(t) ==
    t.at = t.base + Len(Chunks(encoders[1], FirstElements(t.src, t.i - 1)).chunks) - 1

TakesInTurn == \A k \in 1..Len(takes) : TakenInTurn(takes[k])

\* C9: iterencode is pull-driven: an element is taken from an unsized
\* producer only when every chunk of the elements before it has been handed
\* to the caller, and once the caller has stopped pulling no element is
\* taken and no chunk is produced.
C9_PullDriven ==
    /\ []TakesInTurn
    /\ [][status = "abandoned" => (out' = out /\ takes' = takes /\ stack' = stack)]_vars

\* the caller of iterencode stopped after the second element of a producer
\* had been taken, the first element being a producer of its own
C9_Witness ==
    /\ status = "abandoned"
    /\ \E k \in 1..Len(takes) : takes[k].base > 0
    /\ \E k \in 1..Len(takes) : takes[k].i = 2 /\ takes[k].at > 3

=============================================================================
